---- MODULE Spec2Model ----
(***************************************************************************)
(* Location acquisition of the Smart Dermatology Assistant (src/app.py).   *)
(*                                                                         *)
(* The script is a Streamlit page: every user interaction re-executes the  *)
(* whole script top to bottom against the persistent session state         *)
(* (coords, last_error, tried_browser).  One step of the model is one such *)
(* script run ("turn").  At most one button reports a click in a run, and  *)
(* only a button that was rendered by the previous run can be clicked.     *)
(*                                                                         *)
(* Encoding of Python values:                                              *)
(*   None          <<>>                                                    *)
(*   (lat, lon)    <<lat, lon>>      coordinates in whole degrees          *)
(*   str s         <<s>>             for last_error                        *)
(*   text          a sequence of one-character strings, where the code     *)
(*                 parses it (split(","), float())                         *)
(***************************************************************************)
EXTENDS Integers, Sequences, FiniteSets, TLC

(***************************************************************************)
(* Bounds of the explored inputs.                                          *)
(***************************************************************************)
\* how many degrees beyond the legal range the explored inputs reach
MaxOver == 1

None == <<>>

\* latitudes: one inside the legal range, its upper end, and beyond it
Lats == {19} \cup {90 + k : k \in 0..MaxOver}

\* longitudes: one inside the legal range, its lower end, and beyond it
Lons == {72} \cup {-180 - k : k \in 0..MaxOver}

\* err.message values of the browser's GeolocationPositionError, and the
\* 'not_supported' resolution of the JS snippet
Msgs == {"User denied Geolocation", "not_supported"}

(***************************************************************************)
(* Text handling: float() and str.split(",").                              *)
(***************************************************************************)
DigitChar(d) ==
    CASE d = 0 -> "0" [] d = 1 -> "1" [] d = 2 -> "2" [] d = 3 -> "3"
      [] d = 4 -> "4" [] d = 5 -> "5" [] d = 6 -> "6" [] d = 7 -> "7"
      [] d = 8 -> "8" [] d = 9 -> "9"

DigitVal(c) ==
    CASE c = "0" -> 0 [] c = "1" -> 1 [] c = "2" -> 2 [] c = "3" -> 3
      [] c = "4" -> 4 [] c = "5" -> 5 [] c = "6" -> 6 [] c = "7" -> 7
      [] c = "8" -> 8 [] c = "9" -> 9 [] OTHER -> -1

RECURSIVE NatNumeral(_)
NatNumeral(n) ==
    IF n < 10 THEN <<DigitChar(n)>>
    ELSE NatNumeral(n \div 10) \o <<DigitChar(n % 10)>>

\* the decimal text of a whole number of degrees, as the services send it
Numeral(n) == IF n < 0 THEN <<"-">> \o NatNumeral(-n) ELSE NatNumeral(n)

RECURSIVE ParseNat(_, _)
\* digits -> <<value>>, or None when a character is not a digit
ParseNat(cs, acc) ==
    IF cs = <<>> THEN <<acc>>
    ELSE IF DigitVal(Head(cs)) < 0 THEN None
    ELSE ParseNat(Tail(cs), 10 * acc + DigitVal(Head(cs)))

\* float(text): <<number>>, or None where float() raises ValueError
ParseFloat(cs) ==
    IF cs = <<>> THEN None
    ELSE IF Head(cs) = "-"
         THEN IF Tail(cs) = <<>> THEN None
              ELSE LET p == ParseNat(Tail(cs), 0)
                   IN IF p = None THEN None ELSE <<0 - p[1]>>
         ELSE ParseNat(cs, 0)

RECURSIVE Split(_, _)
\* cs.split(sep): the list of pieces
Split(cs, sep) ==
    IF \A i \in 1..Len(cs) : cs[i] # sep THEN <<cs>>
    ELSE LET i == CHOOSE j \in 1..Len(cs) :
                      cs[j] = sep /\ \A k \in 1..(j - 1) : cs[k] # sep
         IN <<SubSeq(cs, 1, i - 1)>> \o Split(SubSeq(cs, i + 1, Len(cs)), sep)

(***************************************************************************)
(* Values the adapters hand to the script.                                 *)
(***************************************************************************)
\* a JSON number, as the geolocation API reports a coordinate
Num(n) == [tag |-> "num", n |-> n, cs |-> <<>>]

\* a JSON string
Text(cs) == [tag |-> "text", n |-> 0, cs |-> cs]

\* float(v) for a value of a dict: <<number>>, or None where it raises
Float(v) == IF v.tag = "num" THEN <<v.n>> ELSE ParseFloat(v.cs)

\* what fetch_coords_browser returned: None, a dict (keys lat, lon, error,
\* each present as <<value>> or missing as None) or another value, of which
\* str is str(res) and truthy is bool(res)
PyNone == [kind |-> "none", lat |-> None, lon |-> None, error |-> None,
           str |-> "None", truthy |-> FALSE]

Dict(lat, lon, error) ==
    [kind |-> "dict", lat |-> lat, lon |-> lon, error |-> error, str |-> "",
     truthy |-> (lat # None \/ lon # None \/ error # None)]

\* the component's value before the promise has resolved
Pending == [kind |-> "value", lat |-> None, lon |-> None, error |-> None,
            str |-> "0", truthy |-> FALSE]

\* no browser call was made in the run
NoCall == [kind |-> "nocall", lat |-> None, lon |-> None, error |-> None,
           str |-> "", truthy |-> FALSE]

\* an exception of the bridge that nothing caught
Raised == [kind |-> "raised", lat |-> None, lon |-> None, error |-> None,
           str |-> "", truthy |-> FALSE]

JsResults ==
    {Dict(<<Num(a)>>, <<Num(b)>>, None) : a \in Lats, b \in Lons}
    \cup {Dict(<<Text(Numeral(19))>>, <<Text(Numeral(72))>>, None)}
    \cup {Dict(<<Text(<<"a", "b">>)>>, <<Num(72)>>, None)}
    \cup {Dict(<<Num(19)>>, <<Text(<<>>)>>, None)}
    \cup {Dict(None, None, <<m>>) : m \in Msgs}
    \cup {Dict(<<Num(19)>>, None, None), Dict(None, None, None)}
    \cup {Pending}

\* the state of the st_javascript bridge at a call
Bridges ==
    {[state |-> "missing", result |-> PyNone], [state |-> "raises", result |-> PyNone]}
    \cup {[state |-> "returns", result |-> r] : r \in JsResults}

\* fetch_coords_browser without the try / except around the bridge call
fetch_coords_browserUnguarded(b) ==
    IF b.state = "missing" THEN PyNone
    ELSE IF b.state = "raises" THEN Raised
    ELSE b.result

fetch_coords_browser(b) ==
    IF b.state = "missing" THEN PyNone
    ELSE IF b.state = "raises" THEN PyNone
    ELSE b.result

\* the outcome of requests.get on ipinfo.io: an exception (network error,
\* timeout) or a response with a status code, a body that is JSON or not,
\* and in it the "loc" text or no "loc"
NoHttp == [kind |-> "nocall", status |-> 0, json |-> FALSE, loc |-> None]

Locs ==
    {Numeral(a) \o <<",">> \o Numeral(b) : a \in Lats, b \in Lons}
    \cup {Numeral(19), <<>>, Numeral(19) \o <<",">>,
          Numeral(19) \o <<",">> \o Numeral(72) \o <<",">> \o Numeral(1),
          <<"a", "b", ",">> \o Numeral(72)}

HttpOutcomes ==
    {[kind |-> "exception", status |-> 0, json |-> FALSE, loc |-> None]}
    \cup {[kind |-> "response", status |-> 500, json |-> TRUE, loc |-> None]}
    \cup {[kind |-> "response", status |-> 200, json |-> FALSE, loc |-> None]}
    \cup {[kind |-> "response", status |-> 200, json |-> TRUE, loc |-> None]}
    \cup {[kind |-> "response", status |-> 200, json |-> TRUE, loc |-> <<l>>] : l \in Locs}

NoPair == [lat |-> None, lon |-> None]

ipinfo_fallback(h) ==
    IF h.kind # "response" THEN NoPair
    ELSE IF h.status # 200 THEN NoPair
    ELSE IF ~h.json THEN NoPair
    ELSE IF h.loc = None \/ h.loc = <<<<>>>> THEN NoPair
    ELSE LET parts == Split(h.loc[1], ",")
         IN IF Len(parts) # 2 THEN NoPair
            ELSE IF ParseFloat(parts[1]) = None \/ ParseFloat(parts[2]) = None
                 THEN NoPair
            ELSE [lat |-> ParseFloat(parts[1]), lon |-> ParseFloat(parts[2])]

\* get_weather: the report, or the placeholder when anything fails
WeatherOutcomes == {"ok", "fails"}

\* get_weather letting the failure through instead of the placeholder
get_weatherPropagates(lat, lon, w) ==
    IF w = "ok" THEN <<"Weather: report">> ELSE None

get_weather(lat, lon, w) ==
    IF w = "ok" THEN <<"Weather: report">> ELSE <<"Weather data unavailable">>

(***************************************************************************)
(* The session state and the script run.                                   *)
(***************************************************************************)
VARIABLES
    coords,         \* st.session_state.coords: None or <<lat, lon>>
    last_error,     \* st.session_state.last_error: None or <<text>>
    tried_browser,  \* st.session_state.tried_browser
    offered,        \* the buttons and inputs the latest run rendered
    uploaded,       \* the file uploader holds a file
    clicked,        \* the button whose handler the latest run executed
    res,            \* what fetch_coords_browser returned in the latest run
    http,           \* what requests.get did in ipinfo_fallback in the latest run
    manual,         \* the manual fields the latest run's handler read
    weather_arg,    \* the (lat, lon) get_weather was called with in the latest run
    weather_info,   \* what get_weather returned in the latest run
    analysis,       \* what the Analyze handler showed in the latest run
    prev,           \* the session state the latest run started from
    guidance_shown, \* the latest run displayed the "How to enable location" text
    reason_shown,   \* the "Reason: ..." the latest run displayed, or None
    weather_call,   \* what the weather service did in the latest run, or "none"
    fault,          \* an exception escaped a handler of the latest run
    called          \* the adapters called so far in the session

vars == <<coords, last_error, tried_browser, offered, uploaded, clicked, res,
          http, manual, weather_arg, weather_info, analysis, prev,
          guidance_shown, reason_shown, weather_call, fault, called>>

Session == [coords |-> coords, last_error |-> last_error, tried_browser |-> tried_browser]

\* Python's truth value of coords (None or a 2-tuple) and of last_error
\* (None or a str)
Truthy(v) == v # None

TruthyStr(e) == e # None /\ e[1] # ""

\* EnableHandler marking the attempt only when it fails
EnableHandlerMarksFailures(s, r) ==
    IF r.kind = "dict" /\ r.lat # None /\ r.lon # None
       /\ Float(r.lat[1]) # None /\ Float(r.lon[1]) # None
    THEN [coords |-> <<Float(r.lat[1])[1], Float(r.lon[1])[1]>>,
          last_error |-> None, tried_browser |-> FALSE]
    ELSE [coords |-> None,
          last_error |-> IF r.kind = "none" THEN <<"browser_unavailable">>
                         ELSE IF r.kind = "dict" /\ r.lat # None /\ r.lon # None
                         THEN <<"parse_error">>
                         ELSE IF r.kind = "dict" THEN r.error ELSE <<r.str>>,
          tried_browser |-> TRUE]

\* EnableHandler storing the latitude alone when the result has no "lon"
EnableHandlerPartial(s, r) ==
    IF r.kind = "none"
    THEN [coords |-> None, last_error |-> <<"browser_unavailable">>, tried_browser |-> TRUE]
    ELSE IF r.kind = "dict" /\ r.lat # None
    THEN IF Float(r.lat[1]) = None \/ (r.lon # None /\ Float(r.lon[1]) = None)
         THEN [coords |-> None, last_error |-> <<"parse_error">>, tried_browser |-> TRUE]
         ELSE [coords |-> IF r.lon = None THEN <<Float(r.lat[1])[1]>>
                          ELSE <<Float(r.lat[1])[1], Float(r.lon[1])[1]>>,
               last_error |-> None, tried_browser |-> TRUE]
    ELSE [coords |-> None,
          last_error |-> IF r.kind = "dict" THEN r.error ELSE <<r.str>>,
          tried_browser |-> TRUE]

\* lines 138-157
EnableHandler(s, r) ==
    IF r.kind = "none"
    THEN [coords |-> None, last_error |-> <<"browser_unavailable">>, tried_browser |-> TRUE]
    ELSE IF r.kind = "dict" /\ r.lat # None /\ r.lon # None
    THEN IF Float(r.lat[1]) = None \/ Float(r.lon[1]) = None
         THEN [coords |-> None, last_error |-> <<"parse_error">>, tried_browser |-> TRUE]
         ELSE [coords |-> <<Float(r.lat[1])[1], Float(r.lon[1])[1]>>,
               last_error |-> None, tried_browser |-> TRUE]
    ELSE [coords |-> None,
          last_error |-> IF r.kind = "dict" THEN r.error ELSE <<r.str>>,
          tried_browser |-> TRUE]

\* lines 172-185
RetryHandler(s, r) ==
    IF r.truthy /\ r.kind = "dict" /\ r.lat # None /\ r.lon # None
    THEN IF Float(r.lat[1]) = None \/ Float(r.lon[1]) = None
         THEN [s EXCEPT !.coords = None, !.last_error = <<"parse_error">>]
         ELSE [s EXCEPT !.coords = <<Float(r.lat[1])[1], Float(r.lon[1])[1]>>,
                        !.last_error = None]
    ELSE [s EXCEPT !.coords = None,
                   !.last_error = IF r.kind = "dict" THEN r.error ELSE <<r.str>>]

\* IpHandler clearing last_error when it stores the pair
IpHandlerClearsError(s, p) ==
    IF p.lat # None
    THEN [s EXCEPT !.coords = <<p.lat[1], p.lon[1]>>, !.last_error = None]
    ELSE s

\* lines 191-198
IpHandler(s, p) ==
    IF p.lat # None THEN [s EXCEPT !.coords = <<p.lat[1], p.lon[1]>>] ELSE s

\* ManualHandler storing the two fields in the wrong order
ManualHandlerSwapped(s, m) == [s EXCEPT !.coords = <<m[2], m[1]>>]

\* lines 202-204
ManualHandler(s, m) == [s EXCEPT !.coords = <<m[1], m[2]>>]

\* The script below the session initialisation, section by section.  click is
\* the button that reports a click in this run ("none" for a run started by
\* another widget), r what fetch_coords_browser returns if it is called, h
\* what requests.get does in ipinfo_fallback if it is called, m the values in
\* the manual fields, w what the weather service does, name whether the name
\* field is filled, put whether a file was just put into the uploader.
\* s is the session state as the section finds it, ran the handler that has
\* been executed so far.

\* the adapter a handler calls: lines 141, 174, 193
AdapterOf(ran) ==
    IF ran \in {"enable", "retry"} THEN {"browser"}
    ELSE IF ran = "ip" THEN {"ip"}
    ELSE {}

\* DownstreamGate deciding on the coordinates the run started with
DownstreamGateAtStart(s) == Truthy(coords)

\* line 207: the gate of the weather and analysis section
DownstreamGate(s) == Truthy(s.coords)

\* lines 206-234: weather and analysis, only with coordinates.  A run that does
\* not render the uploader drops the file it held.
DownstreamSection(s, ran0, click, r, h, m, w, name, put, guidance, fallback, reason) ==
    LET downstream == DownstreamGate(s)
        file == downstream /\ (uploaded \/ put)
        ran == IF ran0 = "none" /\ click = "analyze" /\ file THEN "analyze" ELSE ran0
    IN  /\ coords' = s.coords
        /\ last_error' = s.last_error
        /\ tried_browser' = s.tried_browser
        /\ offered' = {"enable"}
                      \cup (IF guidance THEN {"retry"} ELSE {})
                      \cup (IF fallback THEN {"ip", "manual"} ELSE {})
                      \cup (IF downstream THEN {"upload"} ELSE {})
                      \cup (IF file THEN {"analyze"} ELSE {})
        /\ uploaded' = file
        /\ clicked' = ran
        /\ res' = IF "browser" \in AdapterOf(ran) THEN r ELSE NoCall
        /\ http' = IF "ip" \in AdapterOf(ran) THEN h ELSE NoHttp
        /\ manual' = IF ran = "manual" THEN m ELSE None
        /\ weather_arg' = IF downstream THEN s.coords ELSE None
        /\ weather_info' = IF downstream
                           THEN get_weather(s.coords[1], s.coords[2], w)
                           ELSE None
        /\ analysis' = IF ran = "analyze"
                       THEN IF name THEN "complete" ELSE "name_missing"
                       ELSE "none"
        /\ prev' = Session
        /\ guidance_shown' = guidance
        /\ reason_shown' = reason
        /\ weather_call' = IF downstream THEN w ELSE "none"
        /\ fault' = (ran \in {"enable", "retry"} /\ r.kind = "raised")
        /\ called' = called \cup AdapterOf(ran)

\* FallbackGate offering the fallbacks only after a browser attempt
FallbackGateAfterAttempt(s) == ~Truthy(s.coords) /\ s.tried_browser

\* line 190: the gate of the IP fallback and manual entry section
FallbackGate(s) == ~Truthy(s.coords)

\* lines 189-204: IP fallback and manual entry, only without coordinates
FallbackSection(s, ran0, click, r, h, m, w, name, put, guidance, reason) ==
    LET fallback == FallbackGate(s)
    IN  DownstreamSection(
            IF fallback /\ click = "ip" THEN IpHandler(s, ipinfo_fallback(h))
            ELSE IF fallback /\ click = "manual" THEN ManualHandler(s, m)
            ELSE s,
            IF fallback /\ click \in {"ip", "manual"} THEN click ELSE ran0,
            click, r, h, m, w, name, put, guidance, fallback, reason)

\* GuidanceGate deciding on the session state the run started with
GuidanceGateAtStart(s) == tried_browser /\ ~Truthy(coords)

\* line 160: the gate of the guidance block
GuidanceGate(s) == s.tried_browser /\ ~Truthy(s.coords)

\* lines 159-185: guidance and Retry, only after a browser attempt and
\* without coordinates; the reason is displayed (lines 162-163) before Retry
\* is handled
GuidanceSection(s, ran0, click, r, h, m, w, name, put) ==
    LET guidance == GuidanceGate(s)
    IN  FallbackSection(
            IF guidance /\ click = "retry" THEN RetryHandler(s, r) ELSE s,
            IF guidance /\ click = "retry" THEN "retry" ELSE ran0,
            click, r, h, m, w, name, put, guidance,
            IF guidance /\ TruthyStr(s.last_error) THEN s.last_error ELSE None)

\* lines 137-157, and on through the rest of the script
Run(click, r, h, m, w, name, put) ==
    GuidanceSection(
        IF click = "enable" THEN EnableHandler(Session, r) ELSE Session,
        IF click = "enable" THEN "enable" ELSE "none",
        click, r, h, m, w, name, put)

\* the first run of a session: lines 120-125, nothing clicked
Init ==
    /\ coords = None
    /\ last_error = None
    /\ tried_browser = FALSE
    /\ offered = {"enable", "ip", "manual"}
    /\ uploaded = FALSE
    /\ clicked = "none"
    /\ res = NoCall
    /\ http = NoHttp
    /\ manual = None
    /\ weather_arg = None
    /\ weather_info = None
    /\ analysis = "none"
    /\ prev = [coords |-> None, last_error |-> None, tried_browser |-> FALSE]
    /\ guidance_shown = FALSE
    /\ reason_shown = None
    /\ weather_call = "none"
    /\ fault = FALSE
    /\ called = {}

ClickEnable ==
    /\ "enable" \in offered
    /\ \E b \in Bridges, w \in WeatherOutcomes :
           Run("enable", fetch_coords_browser(b), NoHttp, None, w, FALSE, FALSE)

ClickRetry ==
    /\ "retry" \in offered
    /\ \E b \in Bridges, w \in WeatherOutcomes :
           Run("retry", fetch_coords_browser(b), NoHttp, None, w, FALSE, FALSE)

ClickIp ==
    /\ "ip" \in offered
    /\ \E h \in HttpOutcomes, w \in WeatherOutcomes :
           Run("ip", NoCall, h, None, w, FALSE, FALSE)

ClickManual ==
    /\ "manual" \in offered
    /\ \E a \in Lats, b \in Lons, w \in WeatherOutcomes :
           Run("manual", NoCall, NoHttp, <<a, b>>, w, FALSE, FALSE)

\* a file is put into the uploader: a run with no button clicked
Upload ==
    /\ "upload" \in offered
    /\ \E w \in WeatherOutcomes :
           /\ Run("none", NoCall, NoHttp, None, w, FALSE, TRUE)

ClickAnalyze ==
    /\ "analyze" \in offered
    /\ \E w \in WeatherOutcomes, name \in BOOLEAN :
           Run("analyze", NoCall, NoHttp, None, w, name, FALSE)

\* any other widget of the page (name, language, a manual field) changes, or
\* a button that the run no longer renders was clicked: a run in which no
\* handler executes.  The page always shows Enable Location.
Rerun ==
    /\ "enable" \in offered
    /\ \E w \in WeatherOutcomes :
           Run("none", NoCall, NoHttp, None, w, FALSE, FALSE)

Next ==
    \/ ClickEnable
    \/ ClickRetry
    \/ ClickIp
    \/ ClickManual
    \/ Upload
    \/ ClickAnalyze
    \/ Rerun

Spec == Init /\ [][Next]_vars

(***************************************************************************)
(* Properties.                                                             *)
(***************************************************************************)
\* a pair within the legal range of latitude and longitude
InRange(lat, lon) == lat \in -90..90 /\ lon \in -180..180

\* the browser adapter produced coordinates
BrowserSuccess(r) ==
    /\ r.kind = "dict" /\ r.lat # None /\ r.lon # None
    /\ Float(r.lat[1]) # None /\ Float(r.lon[1]) # None

\* the latest run called an adapter and the adapter failed
AdapterFailed ==
    \/ clicked \in {"enable", "retry"} /\ ~BrowserSuccess(res)
    \/ clicked = "ip" /\ ipinfo_fallback(http) = NoPair

\* C1: once the session holds coordinates, a run whose adapter fails leaves
\* them present and unchanged.
C1_FailureKeepsCoords ==
    (prev.coords # None /\ AdapterFailed) => coords = prev.coords

\* C2: 'Use manual coordinates' with a latitude outside [-90, 90] or a
\* longitude outside [-180, 180] is rejected: coords stays absent and
\* last_error is set.
C2_OutOfRangeManualRejected ==
    (clicked = "manual" /\ ~InRange(manual[1], manual[2]))
        => (coords = None /\ last_error # None)

\* C3: 'Use manual coordinates' with a pair in range, taken without
\* coordinates, ends with coords exactly the supplied pair, and the read that
\* follows (the weather lookup) sees that pair.
C3_ValidManualAccepted ==
    (clicked = "manual" /\ InRange(manual[1], manual[2]))
        => (prev.coords = None /\ coords = manual /\ weather_arg = manual)

C3_Witness ==
    /\ clicked = "manual" /\ manual = <<19, 72>>
    /\ prev.coords = None /\ coords = <<19, 72>>

\* C4: whenever coords is present, last_error is absent.
C4_CoordsImpliesNoError == coords # None => last_error = None

\* C5: coords is absent or a pair with latitude in [-90, 90] and longitude in
\* [-180, 180].
C5_CoordsInRange == coords = None \/ InRange(coords[1], coords[2])

\* C6: Enable Location taken without coordinates, with a browser adapter
\* that fails, leaves coords absent, sets tried_browser and sets last_error
\* to a reason; an {error: m} result records m.
C6_EnableFailureRecorded ==
    (clicked = "enable" /\ prev.coords = None /\ ~BrowserSuccess(res))
        => /\ coords = None
           /\ tried_browser
           /\ last_error # None
           /\ (res.kind = "dict" /\ res.error # None => last_error = res.error)

\* C7: an IP fallback that fails leaves coords absent and records an error
\* in last_error.
C7_IpFailureRecorded ==
    (clicked = "ip" /\ ipinfo_fallback(http) = NoPair)
        => (coords = None /\ last_error # None)

\* C8: a run in which coords goes from absent to present calls get_weather
\* in that run with exactly the stored pair.
C8_WeatherFetchedForNewCoords ==
    (prev.coords = None /\ coords # None)
        => (weather_arg = coords /\ weather_info # None)

\* after a denied browser attempt, an IP fallback success of (19, 72)
C8_Witness ==
    /\ clicked = "ip" /\ prev.coords = None
    /\ prev.last_error = <<"User denied Geolocation">>
    /\ coords = <<19, 72>> /\ weather_arg = <<19, 72>>

\* C9: a run that ends with coords absent neither calls get_weather nor
\* offers the upload and analyze affordances.
C9_DownstreamOnlyWithCoords ==
    coords = None
        => /\ weather_arg = None /\ weather_info = None
           /\ "upload" \notin offered /\ "analyze" \notin offered

\* a run that started with coordinates and a file, and ended without
C9_Witness ==
    /\ coords = None /\ prev.coords # None /\ clicked = "enable"
    /\ weather_info = None /\ "analyze" \notin offered

\* C10: tried_browser, once true, is true after every later run; a second
\* Enable Location leaves it true.
C10_TriedBrowserSticky == prev.tried_browser => tried_browser

C10_Witness ==
    /\ prev.tried_browser /\ clicked = "enable" /\ tried_browser
    /\ prev.coords # None /\ coords # None

\* C11: when tried_browser is true and coords is absent, the run displays the
\* remediation guidance; a reason is displayed only together with the
\* guidance, and a recorded last_error is displayed with it.
C11_GuidanceWithFailure ==
    /\ (tried_browser /\ coords = None) => guidance_shown
    /\ reason_shown # None => guidance_shown
    /\ (guidance_shown /\ clicked # "retry" /\ last_error # None)
           => reason_shown = last_error

C11_Witness ==
    /\ clicked = "enable" /\ coords = None /\ tried_browser
    /\ guidance_shown /\ reason_shown = <<"User denied Geolocation">>

\* C12: for every adapter result, Retry Browser Location ends with the coords
\* and last_error that Enable Location produces for that result.
C12_RetryLikeEnable ==
    clicked = "retry"
        => /\ coords = EnableHandler(prev, res).coords
           /\ last_error = EnableHandler(prev, res).last_error

\* C13: manual entry is offered whenever coords is absent, whatever failed
\* before, and taking it calls neither adapter and ends with coordinates.
C13_ManualAlwaysAvailable ==
    /\ coords = None => "manual" \in offered
    /\ clicked = "manual" => (res = NoCall /\ http = NoHttp /\ coords # None)

\* fresh session, manual (19, 72): coordinates, and no adapter was ever called
C13_Witness ==
    /\ clicked = "manual" /\ called = {} /\ ~tried_browser
    /\ coords = <<19, 72>>

\* C14: in every state without coordinates the IP fallback and manual entry
\* are offered, and manual entry can take the session to coordinates.
C14_NextActionOffered ==
    coords = None
        => /\ {"ip", "manual"} \subseteq offered
           /\ ENABLED (ClickManual /\ coords' # None)

\* the IP service answers without "loc": no coordinates, manual entry offered
C14_Witness ==
    /\ clicked = "ip"
    /\ http = [kind |-> "response", status |-> 200, json |-> TRUE, loc |-> None]
    /\ coords = None /\ "manual" \in offered

\* C15: once coords holds a pair, every later state holds that same pair.
C15_CoordsAuthoritative == prev.coords # None => coords = prev.coords

\* C16: Retry Browser Location is offered exactly in the states where
\* tried_browser is true and coords is absent.
C16_RetryOfferedExactly ==
    ("retry" \in offered) <=> (tried_browser /\ coords = None)

\* a pair of numbers, or absent
WellFormedCoords(c) == c = None \/ (Len(c) = 2 /\ c[1] \in Int /\ c[2] \in Int)

\* C17: Enable Location, Retry Browser Location and the IP fallback complete
\* without an escaping exception for every adapter outcome, and leave coords
\* absent or a pair of numbers and last_error absent or a string.
C17_NoUncaughtFault ==
    clicked \in {"enable", "retry", "ip"}
        => /\ ~fault
           /\ WellFormedCoords(coords)
           /\ last_error = None \/ (Len(last_error) = 1 /\ last_error[1] \in STRING)

\* the bridge raises or is missing
C17_Witness ==
    /\ clicked = "enable" /\ res = PyNone /\ ~fault
    /\ coords = None /\ last_error = <<"browser_unavailable">>

\* C18: coords, and the pair handed to the weather lookup, is absent or has
\* both components.
C18_CoordsNeverPartial == WellFormedCoords(coords) /\ WellFormedCoords(weather_arg)

\* the browser result carries a latitude only
C18_Witness ==
    /\ clicked = "enable" /\ res = Dict(<<Num(19)>>, None, None)
    /\ coords = None

\* C19: with coordinates and a failing weather lookup, the run shows the
\* placeholder and still offers upload and analysis.
C19_WeatherFailureDegrades ==
    (coords # None /\ weather_call = "fails")
        => /\ weather_info = <<"Weather data unavailable">>
           /\ "upload" \in offered
           /\ uploaded => "analyze" \in offered
           /\ clicked = "analyze" => analysis # "none"

C19_Witness ==
    /\ weather_call = "fails" /\ clicked = "analyze" /\ analysis = "complete"
    /\ weather_info = <<"Weather data unavailable">>

\* C20: the IP fallback and manual entry leave last_error and tried_browser
\* as they were, a failed IP fallback leaves the whole session state as it
\* was, and only Enable Location writes tried_browser.
C20_FallbacksWriteOnlyCoords ==
    /\ clicked \in {"ip", "manual"}
           => (last_error = prev.last_error /\ tried_browser = prev.tried_browser)
    /\ (clicked = "ip" /\ ipinfo_fallback(http) = NoPair) => Session = prev
    /\ clicked # "enable" => tried_browser = prev.tried_browser

C20_Witness ==
    /\ clicked = "ip" /\ prev.last_error = <<"not_supported">>
    /\ coords # None /\ last_error = <<"not_supported">>

====
